---- MODULE Spec2Model ----
(***************************************************************************)
(* The storage layer of the EmoGo backend: the in-memory store of          *)
(* memory_db.py (InMemoryDatabase, MemoryCollection, MemoryCursor) and the *)
(* storage facade of database.py (connect_to_mongo, get_database,          *)
(* get_collection, close_mongo_connection), and the data handlers of       *)
(* main.py that use them (POST and GET of /vlogs, /sentiments, /gps and    *)
(* GET /export).                                                           *)
(*                                                                         *)
(* Python values are encoded as follows.  None is the string "None" where  *)
(* the other values are strings, and the empty tuple <<>> where they are   *)
(* integers (an optional integer k is <<k>>).  A list of dicts is a        *)
(* sequence of references into heap, so that two entries of a list may be  *)
(* the same dict object.  str(n) is the sequence of the decimal digits of  *)
(* n.                                                                      *)
(***************************************************************************)
EXTENDS Integers, Sequences, FiniteSets, TLC

\* ------------------------------------------------------------------ bounds

\* insert_one calls made on the store in one behaviour (direct calls)
MaxInserts == 3
\* insert_one calls made in a behaviour that also queries
MaxQueryInserts == 2
\* largest skip / limit argument a query is given
MaxArg == 3
\* callers of the facade that may overlap at the probe
NumTasks == 2
\* connection probes issued in one behaviour
MaxProbes == 2
\* insert_one calls made through a collection handle in one behaviour
MaxHandleInserts == 1
\* POST /sentiments requests that reach insert_one in one behaviour
MaxPosts == 2

\* ------------------------------------------------------------------ inputs

\* the three collections the store is constructed with
InitialNames == {"vlogs", "sentiments", "gps_coordinates"}
\* collection names callers use: the three above and two the store never held
Names == InitialNames \cup {"emotions", "x"}
\* the names get_collection is asked for: one the store holds, one it never held
HandleNames == {"sentiments", "x"}
\* payloads of the records callers insert
Moods == {"good", "bad", "neutral"}
\* filter predicates callers pass to find / count_documents
Queries == {"None", "{}"}

None == <<>>
Some(k) == <<k>>
\* skip arguments, and limit arguments (None: limit unset)
SkipArgs == (-1)..MaxArg
LimitArgs == {None} \cup {Some(k) : k \in (-1)..MaxArg}

VARIABLES
  collections,   \* InMemoryDatabase.collections: name -> list of dict references
  next_id,       \* InMemoryDatabase.next_id
  heap,          \* the dict objects held by the store: reference -> dict
  attempts,      \* history: per name, the moods handed to insert_one, in call order
  res,           \* what the last store call gave its caller, or the last
                 \* handler its client (status: the HTTP status code)
  mongo_uri,     \* os.getenv("MONGODB_URI") of the process
  db_client,     \* Database.client
  db_database,   \* Database.database
  use_memory,    \* Database.use_memory
  task,          \* each caller of the facade: its position and its locals
  probes,        \* 'ismaster' commands issued so far
  clients,       \* AsyncIOMotorClient objects created so far
  returned,      \* history: the kinds get_database has returned so far
  out            \* the facade call that ended in the step just taken, if any

storeVars == <<collections, next_id, heap, attempts, res>>
facadeVars == <<mongo_uri, db_client, db_database, use_memory, task, probes,
                clients, returned, out>>
vars == <<collections, next_id, heap, attempts, res, mongo_uri, db_client,
          db_database, use_memory, task, probes, clients, returned, out>>

\* ------------------------------------------------------ Python primitives

Max(a, b) == IF a >= b THEN a ELSE b
Min(a, b) == IF a <= b THEN a ELSE b

RECURSIVE Str(_)
\* str(n) for n >= 0: the decimal digits, most significant first
Str(n) == IF n < 10 THEN <<n>> ELSE Append(Str(n \div 10), n % 10)

RECURSIVE ParseInt(_)
\* int(s) for a digit string s
ParseInt(s) == IF Len(s) = 0 THEN 0 ELSE 10 * ParseInt(SubSeq(s, 1, Len(s) - 1)) + s[Len(s)]

\* a slice bound as Python normalises it for a list of length n
SliceIndex(k, n) == IF k < 0 THEN Max(n + k, 0) ELSE Min(k, n)
\* mutant: the skip is taken as a tail of len(s) - k records, s[-(len(s) - k):]
SliceFromAsTail(s, k) == SubSeq(s, SliceIndex(-(Len(s) - k), Len(s)) + 1, Len(s))

\* s[k:]
SliceFrom(s, k) == SubSeq(s, SliceIndex(k, Len(s)) + 1, Len(s))
\* s[:k]
SliceTo(s, k) == SubSeq(s, 1, SliceIndex(k, Len(s)))

\* bool(limit) for an optional integer: None and 0 are falsy
Truthy(limit) == limit # None /\ limit[1] # 0

\* ------------------------------------------------------ InMemoryDatabase

NoRes ==
  [op |-> "none", via |-> "none", coll |-> "None", skip |-> 0, limit |-> None,
   raised |-> "none", inserted_id |-> <<>>, n |-> 0, docs |-> <<>>,
   status |-> 0, data_type |-> "None", format |-> "None", query |-> "None"]

\* mutant: the lookup is self.collections[collection], as in insert_one
GetSubscript(collection) ==
  IF collection \in DOMAIN collections
  THEN [raised |-> "none", docs |-> collections[collection]]
  ELSE [raised |-> "KeyError", docs |-> <<>>]

\* self.collections.get(collection, [])
GetOrEmpty(collection) ==
  IF collection \in DOMAIN collections
  THEN [raised |-> "none", docs |-> collections[collection]]
  ELSE [raised |-> "none", docs |-> <<>>]

\* mutant: an unset limit is taken as a limit of zero, docs[:limit or 0]
find_unset_limit_zero(collection, query, skip, limit) ==
  LET docs == IF collection \in DOMAIN collections THEN collections[collection] ELSE <<>>
      skipped == IF skip > 0 THEN SubSeq(docs, Min(skip, Len(docs)) + 1, Len(docs)) ELSE docs
      stop == IF limit = None THEN 0 ELSE limit[1]
  IN  [raised |-> "none", docs |-> SubSeq(skipped, 1, SliceIndex(stop, Len(skipped)))]

\* InMemoryDatabase.find: the list of dict references it returns
find(collection, query, skip, limit) ==
  LET got == GetOrEmpty(collection)
      skipped == IF skip > 0 THEN SliceFrom(got.docs, skip) ELSE got.docs
      limited == IF Truthy(limit) THEN SliceTo(skipped, limit[1]) ELSE skipped
  IN  [raised |-> got.raised, docs |-> IF got.raised = "none" THEN limited ELSE <<>>]

\* mutant: the filter is applied; {} matches every record, None matches none
count_documents_matching(collection, query) ==
  LET got == GetOrEmpty(collection)
  IN  [raised |-> got.raised, n |-> IF query = "{}" THEN Len(got.docs) ELSE 0]

\* InMemoryDatabase.count_documents
count_documents(collection, query) ==
  LET got == GetOrEmpty(collection)
  IN  [raised |-> got.raised, n |-> Len(got.docs)]

\* the dicts a list of references denotes
Deref(refs) == [i \in 1..Len(refs) |-> heap[refs[i]]]

\* mutant: the counter is advanced by every second call only (the write of the
\* first is lost), so two calls mint the same identifier
insert_one_stale_counter(collection, ref, mood, created_at) ==
  /\ next_id' = IF Len(heap) % 2 = 0 THEN next_id ELSE next_id + 2
  /\ heap' = Append(heap, [mood |-> mood, created_at |-> created_at, _id |-> Str(next_id)])
  /\ collections' = [collections EXCEPT ![collection] = Append(@, Len(heap) + 1)]
  /\ attempts' = [attempts EXCEPT ![collection] = Append(@, mood)]

\* InMemoryDatabase.insert_one(collection, document): what it does to the
\* store.  ref = 0: document is a dict the store does not hold yet, with
\* payload mood and the "created_at" its caller gave it ("None": no such key);
\* ref > 0: document is the dict object heap[ref], which the caller kept and
\* hands in again.  The identifier is attached and the counter advanced before
\* the collection is looked up; no other key is written.
insert_one(collection, ref, mood, created_at) ==
  LET payload == IF ref = 0 THEN mood ELSE heap[ref].mood
      stamp == IF ref = 0 THEN created_at ELSE heap[ref].created_at
      doc == [mood |-> payload, created_at |-> stamp, _id |-> Str(next_id)]
      known == collection \in DOMAIN collections
      target == IF ref = 0 THEN Len(heap) + 1 ELSE ref
  IN  /\ next_id' = next_id + 1
      /\ heap' = IF ref # 0 THEN [heap EXCEPT ![ref] = doc]
                 ELSE IF known THEN Append(heap, doc) ELSE heap
      /\ collections' = IF known
                        THEN [collections EXCEPT ![collection] = Append(@, target)]
                        ELSE collections
      /\ attempts' = [attempts EXCEPT ![collection] = Append(@, payload)]

\* InMemoryDatabase.insert_one: what it gives its caller, the MockResult with
\* the identifier or the KeyError of the lookup
InsertResult(collection) ==
  IF collection \in DOMAIN collections
  THEN [raised |-> "none", inserted_id |-> Str(next_id)]
  ELSE [raised |-> "KeyError", inserted_id |-> <<>>]

\* what a caller may hand to insert_one: a new dict {"mood": m}, or one the
\* store holds
Documents == ({0} \X Moods) \cup ((1..Len(heap)) \X {"kept"})
\* what the callers of the facade hand to insert_one on a handle: a new dict
HandleDocuments == {<<0, "good">>}

\* ------------------------------------------------------------ store calls

\* the caller of the store has taken the result of its last call
Idle == res.op = "none"

\* memory_db.insert_one(collection, document), at most bound calls
InsertOne(bound) ==
  /\ Idle
  /\ next_id <= bound
  /\ \E collection \in Names, d \in Documents :
       /\ insert_one(collection, d[1], d[2], "None")
       /\ res' = [NoRes EXCEPT !.op = "insert_one", !.via = "memory_db",
                               !.coll = collection,
                               !.raised = InsertResult(collection).raised,
                               !.inserted_id = InsertResult(collection).inserted_id]
  /\ UNCHANGED facadeVars

\* memory_db.find(collection, query, skip, limit)
Find ==
  /\ Idle
  /\ \E collection \in Names, query \in Queries, skip \in SkipArgs, limit \in LimitArgs :
       LET r == find(collection, query, skip, limit)
       IN  res' = [NoRes EXCEPT !.op = "find", !.via = "memory_db",
                                !.query = query,
                                !.coll = collection, !.skip = skip,
                                !.limit = limit, !.raised = r.raised,
                                !.docs = Deref(r.docs)]
  /\ UNCHANGED <<collections, next_id, heap, attempts>>
  /\ UNCHANGED facadeVars

\* memory_db.count_documents(collection, query)
CountDocuments ==
  /\ Idle
  /\ \E collection \in Names, query \in Queries :
       LET r == count_documents(collection, query)
       IN  res' = [NoRes EXCEPT !.op = "count_documents", !.via = "memory_db",
                                !.query = query,
                                !.coll = collection,
                                !.raised = r.raised, !.n = r.n]
  /\ UNCHANGED <<collections, next_id, heap, attempts>>
  /\ UNCHANGED facadeVars

\* the caller takes the result (or the exception) and goes on
Consume ==
  /\ ~Idle
  /\ res' = NoRes
  /\ UNCHANGED <<collections, next_id, heap, attempts>>
  /\ UNCHANGED facadeVars

\* ------------------------------------------------------------ MemoryCursor

\* MemoryCursor.__init__
MemoryCursor(collection_name, query) ==
  [collection_name |-> collection_name, query |-> query,
   skip_count |-> 0, limit_count |-> None]

\* MemoryCursor.skip
CursorSkip(cursor, count) == [cursor EXCEPT !.skip_count = count]

\* MemoryCursor.limit
CursorLimit(cursor, count) == [cursor EXCEPT !.limit_count = Some(count)]

\* mutant: the iteration forgets the cursor's skip_count
CursorDocsIgnoreSkip(cursor) ==
  find(cursor.collection_name, cursor.query, 0, cursor.limit_count)

\* MemoryCursor.__aiter__: the records the iteration yields
CursorDocs(cursor) ==
  find(cursor.collection_name, cursor.query, cursor.skip_count, cursor.limit_count)

\* MemoryCollection(name).find(query), then .skip(k) and .limit(l) when the
\* caller chains them (None: the call is left out), then the iteration
Iterate ==
  /\ Idle
  /\ \E name \in Names, query \in Queries,
        skipCall \in {None} \cup {Some(k) : k \in SkipArgs}, limitCall \in LimitArgs :
       LET c0 == MemoryCursor(name, query)
           c1 == IF skipCall = None THEN c0 ELSE CursorSkip(c0, skipCall[1])
           c2 == IF limitCall = None THEN c1 ELSE CursorLimit(c1, limitCall[1])
           r == CursorDocs(c2)
       IN  res' = [NoRes EXCEPT !.op = "find", !.via = "MemoryCursor",
                                !.query = query,
                                !.coll = name, !.skip = c2.skip_count,
                                !.limit = c2.limit_count, !.raised = r.raised,
                                !.docs = Deref(r.docs)]
  /\ UNCHANGED <<collections, next_id, heap, attempts>>
  /\ UNCHANGED facadeVars

\* ------------------------------------------------------------------ facade

Tasks == 1..NumTasks

\* MONGODB_URI: unset, a string the driver rejects, a server that never
\* answers, a server that may answer
Uris == {"None", "invalid", "mongodb://down", "mongodb://host"}

\* the exceptions the driver raises: all of them subclasses of Exception
ExceptionKinds == {"ConfigurationError", "ConnectionFailure", "OperationFailure"}

\* mutant: the handler is 'except ConnectionFailure', the class the module imports
CatchesConnectionFailure(e) == e = "ConnectionFailure"

\* 'except Exception' of connect_to_mongo
Catches(e) == e \in ExceptionKinds

NoHandle == [kind |-> "None", name |-> "None"]
\* a caller's local before get_collection has given it a value
Unbound == [kind |-> "unbound", name |-> "None"]

NewTask == [pc |-> "idle", op |-> "none", name |-> "None", handle |-> Unbound]

\* no facade call ended in the step just taken
NoOut == [op |-> "none", ret |-> "none", err |-> "none"]

\* mutant: get_database connects whenever the in-memory flag is unset
NeedsConnectAlways == TRUE

\* 'if db.database is None' of get_database
NeedsConnect == db_database = "None"

\* connect_to_mongo from its first line to its await or its return
ConnectBegin ==
  IF mongo_uri = "None"
  THEN [how |-> "returned", use_memory |-> TRUE, err |-> "none"]
  ELSE IF mongo_uri = "invalid"
  THEN IF Catches("ConfigurationError")
       THEN [how |-> "returned", use_memory |-> TRUE, err |-> "ConfigurationError"]
       ELSE [how |-> "raised", use_memory |-> use_memory, err |-> "ConfigurationError"]
  ELSE [how |-> "await", use_memory |-> use_memory, err |-> "none"]

\* what the probe may give: the command's reply, or an exception
ProbeOutcomes ==
  IF mongo_uri = "mongodb://down"
  THEN {"ConnectionFailure"}
  ELSE {"ok", "ConnectionFailure", "OperationFailure"}

\* mutant: get_database returns db.database without looking at the flag again
DatabaseValueNoRecheck(memory, database) == database

\* the last lines of get_database, once connect_to_mongo is behind it
DatabaseValue(memory, database) == IF memory THEN "memory_db" ELSE database

\* get_collection's choice of a handle for what get_database returned
CollectionFor(database, name) ==
  IF database = "memory_db" THEN [kind |-> "MemoryCollection", name |-> name]
  ELSE IF database = "None" THEN NoHandle
  ELSE [kind |-> "MongoCollection", name |-> name]

\* task t's call of o ends.  how is "returned" or "raised" for connect_to_mongo
\* itself; value is what get_database gives when o goes through it, and
\* get_database turns an exception into None
EndCall(t, o, name, how, value, e) ==
  LET v == IF o = "connect_to_mongo" THEN how
           ELSE IF how = "raised" THEN "None" ELSE value
  IN  /\ task' = [task EXCEPT ![t] =
                    [pc |-> "idle", op |-> "none", name |-> "None",
                     handle |-> IF o = "get_collection" THEN CollectionFor(v, name)
                                ELSE @.handle]]
      /\ returned' = IF o = "connect_to_mongo" THEN returned ELSE returned \cup {v}
      /\ out' = [op |-> o, ret |-> v, err |-> e]

\* task t's call of o creates a client and reaches the await of the probe
Suspend(t, o, name) ==
  /\ probes < MaxProbes
  /\ task' = [task EXCEPT ![t] =
                [pc |-> "probe", op |-> o, name |-> name, handle |-> @.handle]]
  /\ probes' = probes + 1
  /\ clients' = clients + 1
  /\ db_client' = "open"
  /\ out' = NoOut
  /\ UNCHANGED <<db_database, use_memory, returned>>

\* connect_to_mongo entered by task t on behalf of o
Connect(t, o, name) ==
  LET b == ConnectBegin
  IN  IF b.how = "await"
      THEN Suspend(t, o, name)
      ELSE /\ use_memory' = b.use_memory
           /\ EndCall(t, o, name, b.how, DatabaseValue(b.use_memory, db_database), b.err)
           /\ UNCHANGED <<db_client, db_database, probes, clients>>

\* get_database, and get_collection's call of it
ResolveCall(t, o, name) ==
  IF use_memory
  THEN /\ EndCall(t, o, name, "returned", "memory_db", "none")
       /\ UNCHANGED <<db_client, db_database, use_memory, probes, clients>>
  ELSE IF NeedsConnect
  THEN Connect(t, o, name)
  ELSE /\ EndCall(t, o, name, "returned", DatabaseValue(use_memory, db_database), "none")
       /\ UNCHANGED <<db_client, db_database, use_memory, probes, clients>>

\* connect_to_mongo called directly, as startup_event does
ConnectToMongo(t) ==
  /\ task[t].pc = "idle"
  /\ Connect(t, "connect_to_mongo", "None")
  /\ UNCHANGED <<mongo_uri, storeVars>>

\* get_database
GetDatabase(t) ==
  /\ task[t].pc = "idle"
  /\ ResolveCall(t, "get_database", "None")
  /\ UNCHANGED <<mongo_uri, storeVars>>

\* get_collection(name)
GetCollection(t) ==
  /\ task[t].pc = "idle"
  /\ \E name \in HandleNames : ResolveCall(t, "get_collection", name)
  /\ UNCHANGED <<mongo_uri, storeVars>>

\* the probe of task t ends and connect_to_mongo runs to its end, then its caller
ProbeEnd(t) ==
  /\ \E outcome \in ProbeOutcomes :
       IF outcome = "ok"
       THEN /\ db_database' = "mongo"
            /\ EndCall(t, task[t].op, task[t].name, "returned",
                       DatabaseValue(use_memory, "mongo"), "none")
            /\ UNCHANGED use_memory
       ELSE IF Catches(outcome)
       THEN /\ use_memory' = TRUE
            /\ EndCall(t, task[t].op, task[t].name, "returned", "memory_db", outcome)
            /\ UNCHANGED db_database
       ELSE /\ EndCall(t, task[t].op, task[t].name, "raised", "None", outcome)
            /\ UNCHANGED <<db_database, use_memory>>
  /\ UNCHANGED <<mongo_uri, db_client, probes, clients>>

\* the probe ends for a caller of connect_to_mongo, get_database or get_collection
ProbeReturn(t) ==
  /\ task[t].pc = "probe"
  /\ ProbeEnd(t)
  /\ UNCHANGED storeVars

\* mutant: the client is closed without the test, db.client.close()
HasClientAlways == TRUE

\* 'if db.client' of close_mongo_connection
HasClient == db_client # "None"

\* close_mongo_connection; None has no close(), so calling it on None raises
CloseMongoConnection ==
  /\ IF ~HasClient
     THEN /\ db_client' = db_client
          /\ out' = [op |-> "close_mongo_connection", ret |-> "returned", err |-> "none"]
     ELSE IF db_client = "None"
     THEN /\ db_client' = db_client
          /\ out' = [op |-> "close_mongo_connection", ret |-> "raised",
                     err |-> "AttributeError"]
     ELSE /\ db_client' = "closed"
          /\ out' = [op |-> "close_mongo_connection", ret |-> "returned", err |-> "none"]
  /\ UNCHANGED <<mongo_uri, db_database, use_memory, task, probes, clients,
                 returned, storeVars>>

\* MemoryCollection.insert_one on the handle task t got from get_collection
HandleInsertOne(t) ==
  /\ Idle
  /\ task[t].pc = "idle"
  /\ task[t].handle.kind = "MemoryCollection"
  /\ next_id <= MaxHandleInserts
  /\ \E d \in HandleDocuments :
       LET r == InsertResult(task[t].handle.name)
       IN  /\ insert_one(task[t].handle.name, d[1], d[2], "None")
           /\ res' = [NoRes EXCEPT !.op = "insert_one", !.via = "MemoryCollection",
                                   !.coll = task[t].handle.name,
                                   !.raised = r.raised,
                                   !.inserted_id = r.inserted_id]
  /\ UNCHANGED facadeVars

\* ---------------------------------------------------------------- handlers

VLOGS_COLLECTION == "vlogs"
SENTIMENTS_COLLECTION == "sentiments"
GPS_COLLECTION == "gps_coordinates"

PostHandlers == {"create_vlog", "create_sentiment", "create_gps_coordinate"}
GetHandlers == {"get_vlogs", "get_sentiments", "get_gps_coordinates"}
Handlers == PostHandlers \cup GetHandlers \cup {"export_data"}

\* the query parameters of GET /export
DataTypes == {"vlogs", "sentiments", "gps", "all"}
Formats == {"json", "csv"}

\* the default of the limit parameter of the GET handlers
DefaultLimit == 100
\* the limit parameter of the GET handlers: an int, never None
HandlerLimits == {-1, 0, 1, DefaultLimit}
\* the payloads of the bodies of the POST requests
RequestMoods == {"good", "bad"}

\* collection_map of export_data
CollectionMap(data_type) ==
  CASE data_type = "vlogs" -> VLOGS_COLLECTION
    [] data_type = "sentiments" -> SENTIMENTS_COLLECTION
    [] data_type = "gps" -> GPS_COLLECTION
    [] OTHER -> "None"

\* the collection a POST or GET handler works on (export_data takes it from
\* its data_type)
CollectionOf(h) ==
  CASE h \in {"create_vlog", "get_vlogs"} -> VLOGS_COLLECTION
    [] h \in {"create_sentiment", "get_sentiments"} -> SENTIMENTS_COLLECTION
    [] h \in {"create_gps_coordinate", "get_gps_coordinates"} -> GPS_COLLECTION
    [] OTHER -> "None"

\* the handlers that call get_collection; the others call get_database and
\* subscript what it returns
UsesGetCollection(h) == h \in {"create_sentiment", "get_sentiments"}

\* db[name]: a Motor database gives a collection, the str marker raises
\* TypeError (string indices must be integers)
Subscript(db, name) ==
  IF db = "memory_db"
  THEN [raised |-> "TypeError", handle |-> NoHandle]
  ELSE [raised |-> "none", handle |-> [kind |-> "MongoCollection", name |-> name]]

\* the collection object a handler obtains from what get_database returned
HandlerCollection(h, db) ==
  IF UsesGetCollection(h)
  THEN [raised |-> "none", handle |-> CollectionFor(db, CollectionOf(h))]
  ELSE Subscript(db, CollectionOf(h))

\* the response of handler h with the given status code
Http(h, status) == [NoRes EXCEPT !.op = h, !.via = "http", !.status = status]

\* str(v) for a v that is a str: the same string
StrOfStr(s) == s

\* a handler whose database is None: the POST handlers raise HTTPException(500),
\* the others answer with empty data
NotConnected(h) ==
  /\ res' = IF h \in PostHandlers
            THEN [Http(h, 500) EXCEPT !.raised = "HTTPException"]
            ELSE Http(h, 200)
  /\ UNCHANGED <<collections, next_id, heap, attempts>>

\* a handler whose subscript raised: 'except Exception' answers with 500
Failed(h, e) ==
  /\ \E data_type \in DataTypes, format \in Formats :
       res' = IF h = "export_data"
              THEN [Http(h, 500) EXCEPT !.raised = e, !.data_type = data_type,
                                        !.format = format]
              ELSE [Http(h, 500) EXCEPT !.raised = e, !.coll = CollectionOf(h)]
  /\ UNCHANGED <<collections, next_id, heap, attempts>>

\* a handler on a Motor collection: the driver's calls succeed or raise, and
\* the records of the external database are not part of the model (empty: the
\* exported collection holds none; n: 0 or 1 for the number exported).  In
\* export_data the HTTPException(404) for an empty CSV export is raised inside
\* the try and leaves through 'except Exception' as a 500.
External(h) ==
  /\ \E ok \in BOOLEAN, empty \in BOOLEAN, data_type \in DataTypes, format \in Formats :
       res' = IF h = "export_data"
              THEN IF ~ok
                   THEN [Http(h, 500) EXCEPT !.raised = "PyMongoError",
                                             !.data_type = data_type, !.format = format]
                   ELSE IF format = "csv" /\ data_type # "all" /\ empty
                   THEN [Http(h, 500) EXCEPT !.raised = "HTTPException(404)",
                                             !.data_type = data_type, !.format = format]
                   ELSE [Http(h, 200) EXCEPT !.data_type = data_type, !.format = format,
                                             !.n = IF empty THEN 0 ELSE 1]
              ELSE IF ok
              THEN [Http(h, 200) EXCEPT !.coll = CollectionOf(h)]
              ELSE [Http(h, 500) EXCEPT !.coll = CollectionOf(h), !.raised = "PyMongoError"]
  /\ UNCHANGED <<collections, next_id, heap, attempts>>

\* a POST handler on a MemoryCollection: the dict of the request body gets its
\* "created_at" and is inserted
MemoryPost(h, name) ==
  \E mood \in RequestMoods :
    LET r == InsertResult(name)
    IN  /\ insert_one(name, 0, mood, "utcnow")
        /\ res' = [Http(h, IF r.raised = "none" THEN 200 ELSE 500) EXCEPT
                     !.coll = name, !.raised = r.raised,
                     !.inserted_id = r.inserted_id]

\* a GET handler on a MemoryCollection: find().skip(skip).limit(limit) is
\* iterated, each yielded dict gets its "_id" rewritten as a str, and the
\* collection is counted
MemoryGet(h, name) ==
  \E skip \in SkipArgs, limit \in HandlerLimits :
    LET cursor == CursorLimit(CursorSkip(MemoryCursor(name, "None"), skip), limit)
        yielded == CursorDocs(cursor).docs
        count == count_documents(name, "{}")
    IN  /\ heap' = [r \in 1..Len(heap) |->
                      IF \E k \in 1..Len(yielded) : yielded[k] = r
                      THEN [heap[r] EXCEPT !._id = StrOfStr(@)]
                      ELSE heap[r]]
        /\ res' = [Http(h, 200) EXCEPT
                     !.coll = name, !.skip = skip, !.limit = Some(limit),
                     !.docs = [k \in 1..Len(yielded) |-> heap'[yielded[k]]],
                     !.n = count.n]
        /\ UNCHANGED <<collections, next_id, attempts>>

\* handler h from the return of get_database / get_collection to its response
HandlerBody(h, db) ==
  LET c == HandlerCollection(h, db)
  IN  IF db = "None" THEN NotConnected(h)
      ELSE IF c.raised # "none" THEN Failed(h, c.raised)
      ELSE IF c.handle.kind = "MongoCollection" THEN External(h)
      ELSE IF h \in PostHandlers THEN MemoryPost(h, c.handle.name)
      ELSE MemoryGet(h, c.handle.name)

\* a request arrives and task t runs its handler, to the response or to the
\* await of the probe.  The parameters of the request are drawn where the
\* handler first reads them.
Request(t) ==
  /\ Idle
  /\ task[t].pc = "idle"
  /\ \E h \in Handlers :
       /\ h = "create_sentiment" => next_id <= MaxPosts
       /\ ResolveCall(t, h, CollectionOf(h))
       /\ IF out'.op = "none"
          THEN UNCHANGED storeVars
          ELSE HandlerBody(h, out'.ret)
  /\ UNCHANGED mongo_uri

\* the probe of a suspended handler ends and the handler runs to its response
RequestResume(t) ==
  /\ Idle
  /\ task[t].pc = "probe"
  /\ task[t].op \in Handlers
  /\ task[t].op = "create_sentiment" => next_id <= MaxPosts
  /\ ProbeEnd(t)
  /\ HandlerBody(task[t].op, out'.ret)

\* ------------------------------------------------------- specifications

StoreInit ==
  /\ collections = [c \in InitialNames |-> <<>>]
  /\ next_id = 1
  /\ heap = <<>>
  /\ attempts = [c \in Names |-> <<>>]
  /\ res = NoRes

FacadeInit ==
  /\ db_client = "None"
  /\ db_database = "None"
  /\ use_memory = FALSE
  /\ task = [t \in Tasks |-> NewTask]
  /\ probes = 0
  /\ clients = 0
  /\ returned = {}
  /\ out = NoOut

Init == StoreInit /\ FacadeInit /\ mongo_uri = "None"

\* the store under inserts and counts
Next == InsertOne(MaxInserts) \/ CountDocuments \/ Consume

Spec == Init /\ [][Next]_vars

\* the store under inserts and queries
QueryNext == InsertOne(MaxQueryInserts) \/ Find \/ Iterate \/ CountDocuments \/ Consume

SpecQuery == Init /\ [][QueryNext]_vars

FacadeStart == StoreInit /\ FacadeInit /\ mongo_uri \in Uris

\* the facade under overlapping callers, and the store behind its handles
FacadeNext ==
  \/ \E t \in Tasks : ConnectToMongo(t)
  \/ \E t \in Tasks : GetDatabase(t)
  \/ \E t \in Tasks : GetCollection(t)
  \/ \E t \in Tasks : ProbeReturn(t)
  \/ CloseMongoConnection
  \/ \E t \in Tasks : HandleInsertOne(t)
  \/ Consume

SpecFacade == FacadeStart /\ [][FacadeNext]_vars

\* the handlers of main.py under overlapping requests
HandlersNext ==
  \/ \E t \in Tasks : Request(t)
  \/ \E t \in Tasks : RequestResume(t)
  \/ Consume

SpecHandlers == FacadeStart /\ [][HandlersNext]_vars

\* ------------------------------------------------------------------ claims

\* the records a collection holds (none when the store has no such name)
Held(c) == IF c \in DOMAIN collections THEN Deref(collections[c]) ELSE <<>>

\* the payloads of a sequence of records
MoodsOf(docs) == [i \in 1..Len(docs) |-> docs[i].mood]

\* C1: after N insert_one calls into a collection that started fresh,
\* count_documents on it returns N, and find with skip 0 and limit N returns
\* the N inserted records in call order with strictly increasing identifiers.
C1_CountAndFindAfterInserts ==
  LET c == res.coll
      N == Len(attempts[c])
  IN  /\ (res.op = "count_documents" => res.raised = "none" /\ res.n = N)
      /\ (res.op = "find" /\ res.skip = 0 /\ res.limit = Some(N) =>
            /\ res.raised = "none"
            /\ MoodsOf(res.docs) = attempts[c]
            /\ \A i \in 1..(Len(res.docs) - 1) :
                 ParseInt(res.docs[i]._id) < ParseInt(res.docs[i + 1]._id))

\* C2: once get_database (or get_collection through it) has returned one kind
\* of backend, no later call returns the other kind.
C2_BackendNeverChanges == Cardinality(returned) <= 1

\* C3: once a get_database or get_collection call has returned, no later such
\* call creates a client or issues a probe, and a call that directly follows
\* another returns at once with the same kind of backend.
C3_ResolutionIdempotent ==
  [][\A t \in Tasks :
       (GetDatabase(t) \/ GetCollection(t)) =>
         /\ (returned # {} => probes' = probes /\ clients' = clients)
         /\ (out.op \in {"get_database", "get_collection"} =>
               out'.op # "none" /\ out'.ret = out.ret)]_vars

\* C3 witness: every caller holds a handle of the external database and one
\* probe was issued in all.
C3_Witness ==
  /\ probes = 1
  /\ \A t \in Tasks : task[t].handle.kind = "MongoCollection"
  /\ out.op = "get_collection"

\* C4: no call of connect_to_mongo or get_database ends with an exception, a
\* call that met no connection string or a failure ends normally with the
\* in-memory backend selected, and whenever connect_to_mongo has ended a
\* backend is chosen.
C4_ResolutionNeverRaises ==
  /\ out.ret # "raised"
  /\ (out.op \in {"connect_to_mongo", "get_database", "get_collection"}
        /\ (mongo_uri = "None" \/ out.err # "none") =>
        use_memory /\ out.ret \in {"returned", "memory_db"})
  /\ (out.op = "connect_to_mongo" => use_memory \/ db_database # "None")

\* C4 witness: a get_database call whose probe failed has returned the
\* in-memory marker.
C4_Witness ==
  /\ out.op = "get_database"
  /\ out.err = "ConnectionFailure"
  /\ out.ret = "memory_db"

\* C5: with an unreachable connection string, insert_one on the handle that
\* get_collection gave does not raise and stores the record, whatever the name.
C5_FallbackInsertSucceeds ==
  (mongo_uri = "mongodb://down" /\ res.op = "insert_one" /\ res.via = "MemoryCollection") =>
    /\ res.raised = "none"
    /\ Len(Held(res.coll)) >= 1
    /\ Held(res.coll)[Len(Held(res.coll))]._id = res.inserted_id

\* C6: the first insert_one into a name the store never held succeeds, and
\* afterwards the collection exists and holds exactly the inserted record.
C6_InsertCreatesCollection ==
  (res.op = "insert_one" /\ res.coll \notin InitialNames /\ Len(attempts[res.coll]) = 1) =>
    /\ res.raised = "none"
    /\ res.coll \in DOMAIN collections
    /\ Held(res.coll) = <<[mood |-> attempts[res.coll][1], created_at |-> "None",
                           _id |-> res.inserted_id]>>

\* C7: on a new store, after "good", "bad", "neutral" are inserted in that
\* order into "emotions" and nothing else is inserted, count_documents gives 3
\* and find with skip 1 and limit 1 gives the "bad" record alone, with the
\* second identifier minted.
C7_EmotionsScenario ==
  (attempts["emotions"] = <<"good", "bad", "neutral">> /\ next_id = 4) =>
    /\ count_documents("emotions", "None") = [raised |-> "none", n |-> 3]
    /\ find("emotions", "None", 1, Some(1)).raised = "none"
    /\ Deref(find("emotions", "None", 1, Some(1)).docs) =
         <<[mood |-> "bad", created_at |-> "None", _id |-> Str(2)]>>
    /\ (res.op = "count_documents" /\ res.coll = "emotions" => res.n = 3)

\* C8: find and count_documents on a name that was never inserted into and
\* that the store never held give an empty sequence and 0, and do not raise.
C8_UnknownCollectionEmpty ==
  (res.op \in {"find", "count_documents"} /\ res.coll \notin InitialNames
     /\ attempts[res.coll] = <<>>) =>
    res.raised = "none" /\ res.docs = <<>> /\ res.n = 0

\* C8 witness: a query with skip and limit set was answered for the name "x"
\* while another collection holds records.
C8_Witness ==
  /\ res.op = "find"
  /\ res.coll = "x"
  /\ res.skip > 0
  /\ res.limit # None
  /\ attempts["x"] = <<>>
  /\ Len(heap) > 0

\* C9: find with a skip greater than the number of records the collection
\* holds gives an empty sequence and does not raise, whatever the limit.
C9_SkipBeyondEnd ==
  (res.op = "find" /\ res.skip > Len(Held(res.coll))) =>
    res.raised = "none" /\ res.docs = <<>>

\* C9 witness: a collection holding two records was queried with a skip of
\* three and a limit.
C9_Witness ==
  /\ res.op = "find"
  /\ Len(Held(res.coll)) = 2
  /\ res.skip = 3
  /\ res.limit # None
  /\ res.docs = <<>>

\* C10: find with skip 0 and the limit unset gives every record of the
\* collection, in insertion order, directly and through a MemoryCursor.
C10_UnsetLimitFullSequence ==
  (res.op = "find" /\ res.skip = 0 /\ res.limit = None) =>
    /\ res.raised = "none"
    /\ res.docs = Held(res.coll)
    /\ (res.coll \in InitialNames => MoodsOf(res.docs) = attempts[res.coll])

\* C10 witness: a MemoryCursor with neither skip nor limit set yielded two
\* records.
C10_Witness ==
  /\ res.op = "find"
  /\ res.via = "MemoryCursor"
  /\ res.skip = 0
  /\ res.limit = None
  /\ Len(res.docs) = 2

\* C11: whenever find is given a limit L >= 0, L = 0 included, it returns at
\* most L records.
C11_LimitBoundsResult ==
  (res.op = "find" /\ res.limit # None /\ res.limit[1] >= 0) =>
    res.raised = "none" /\ Len(res.docs) <= res.limit[1]

\* C12: a negative skip or limit never makes find raise; a negative skip gives
\* what skip 0 gives, and a negative limit gives what an unset limit gives or
\* what a limit of zero records gives, so no record is omitted from the end.
C12_NegativeArgsPermissive ==
  (res.op = "find" /\ (res.skip < 0 \/ (res.limit # None /\ res.limit[1] < 0))) =>
    LET all == Held(res.coll)
        skipped == IF res.skip > 0 THEN SubSeq(all, Min(res.skip, Len(all)) + 1, Len(all))
                   ELSE all
    IN  /\ res.raised = "none"
        /\ (res.limit = None \/ res.limit[1] >= 0 =>
              res.docs = Deref(find(res.coll, "None", 0, res.limit).docs))
        /\ (res.limit # None /\ res.limit[1] < 0 => res.docs \in {skipped, <<>>})

\* C13: no two entries of one collection carry the same identifier, and the
\* identifier of a record the store holds never changes.
C13_IdentifiersUniqueImmutable ==
  /\ [](\A c \in DOMAIN collections :
          \A i, j \in 1..Len(collections[c]) :
            i # j => heap[collections[c][i]]._id # heap[collections[c][j]]._id)
  /\ [][\A r \in 1..Len(heap) : heap'[r]._id = heap[r]._id]_vars

\* C16 (as stated): close_mongo_connection never raises, closes the client of
\* the external backend, and changes nothing when the in-memory backend is
\* selected.
C16_CloseNoOpInMemory ==
  [][CloseMongoConnection =>
       /\ out'.ret = "returned"
       /\ (~use_memory /\ db_client # "None" => db_client' = "closed")
       /\ (use_memory => db_client' = db_client)]_vars

\* C16 (amended): close_mongo_connection never raises in any state; it closes
\* the client whenever one was created, also the one a failed probe left
\* behind while the in-memory backend is selected, and changes nothing else;
\* when no client was created it changes nothing at all.
C16_CloseSafe ==
  [][CloseMongoConnection =>
       /\ out'.ret = "returned"
       /\ db_client' = (IF db_client = "None" THEN "None" ELSE "closed")
       /\ UNCHANGED <<db_database, use_memory, task, returned, collections,
                      next_id, heap>>]_vars

\* C16 witness: close_mongo_connection has returned with the in-memory backend
\* selected and the client of the failed probe closed.
C16_Witness ==
  /\ out.op = "close_mongo_connection"
  /\ out.ret = "returned"
  /\ use_memory
  /\ db_client = "closed"

\* C18: get_database never returns None, and no caller's handle from
\* get_collection is None: each is the external database (or its collection)
\* or the in-memory marker (or a MemoryCollection).
C18_NeverNone ==
  /\ "None" \notin returned
  /\ (out.op \in {"get_database", "get_collection"} => out.ret \in {"memory_db", "mongo"})
  /\ \A t \in Tasks : task[t].handle.kind \in {"unbound", "MemoryCollection", "MongoCollection"}

\* C18 witness: a get_collection call whose probe met an OperationFailure has
\* given its caller a MemoryCollection.
C18_Witness ==
  /\ out.op = "get_collection"
  /\ out.err = "OperationFailure"
  /\ \E t \in Tasks : task[t].handle.kind = "MemoryCollection"

\* C20: of the get_database (or get_collection) calls that start before a
\* backend is resolved, at most one creates a client and issues a probe.
C20_SelectionOnce ==
  Cardinality({t \in Tasks : task[t].pc = "probe"
                 /\ task[t].op \in {"get_database", "get_collection"}}) <= 1

\* C19: every record a collection holds carries a generated identifier and a
\* creation timestamp, whichever path inserted it.
C19_IdentifierAndTimestamp ==
  \A c \in DOMAIN collections :
    \A i \in 1..Len(collections[c]) :
      /\ Len(heap[collections[c][i]]._id) > 0
      /\ heap[collections[c][i]].created_at # "None"

\* C14: under overlapping POST /sentiments handlers no record is lost, no
\* identifier is minted twice, and the records stand in the collection in the
\* order in which the insert_one calls ran.
C14_ConcurrentInsertsAtomic ==
  LET held == Held(SENTIMENTS_COLLECTION)
  IN  /\ MoodsOf(held) = attempts[SENTIMENTS_COLLECTION]
      /\ next_id = Len(held) + 1
      /\ \A i \in 1..Len(held) : ParseInt(held[i]._id) = i
      /\ (res.op = "create_sentiment" /\ out.ret = "memory_db" =>
            /\ res.status = 200
            /\ Len(held) > 0
            /\ held[Len(held)]._id = res.inserted_id)

\* C14 witness: a POST /sentiments handler that was suspended at the probe
\* while another one inserted has stored the second record.
C14_Witness ==
  /\ res.op = "create_sentiment"
  /\ res.status = 200
  /\ out.err = "ConnectionFailure"
  /\ Len(Held(SENTIMENTS_COLLECTION)) = 2

\* C15: the records GET /sentiments yields through its MemoryCursor are one
\* contiguous run of the collection as it stands when the handler answers,
\* starting after the skipped records, and that collection holds every record
\* inserted so far, also those inserted while the handler was suspended.
C15_CursorSnapshot ==
  (res.op = "get_sentiments" /\ out.ret = "memory_db") =>
    LET held == Held(res.coll)
        from == IF res.skip > 0 THEN Min(res.skip, Len(held)) ELSE 0
    IN  /\ res.status = 200
        /\ MoodsOf(held) = attempts[res.coll]
        /\ res.n = Len(held)
        /\ \E to \in from..Len(held) : res.docs = SubSeq(held, from + 1, to)
        /\ (res.limit[1] = 0 \/ res.limit[1] >= Len(held) - from =>
              res.docs = SubSeq(held, from + 1, Len(held)))

\* C15 witness: a GET /sentiments handler that was suspended at the probe
\* while two records were inserted has yielded the second of them.
C15_Witness ==
  /\ res.op = "get_sentiments"
  /\ out.err = "ConnectionFailure"
  /\ res.skip = 1
  /\ Len(res.docs) = 1
  /\ res.n = 2

\* C17: with the in-memory backend every POST and GET handler of /vlogs,
\* /sentiments and /gps and every JSON export answers with 200, and a POST
\* leaves its record as the last one of the matching collection.
C17_UniformInterface ==
  (res.via = "http" /\ out.ret = "memory_db"
     /\ (res.op = "export_data" => res.format = "json")) =>
    /\ res.status = 200
    /\ (res.op \in PostHandlers =>
          /\ Len(Held(CollectionOf(res.op))) > 0
          /\ Held(CollectionOf(res.op))[Len(Held(CollectionOf(res.op)))]._id = res.inserted_id)

\* C21: after find or count_documents on a name, the store holds a
\* collection of that name and an insert_one into it would not raise.
C21_QueryCreatesCollection ==
  res.op \in {"find", "count_documents"} =>
    /\ res.coll \in DOMAIN collections
    /\ InsertResult(res.coll).raised = "none"

\* C26: use_memory is never set while db.database holds an external database.
C26_BackendsExclusive == ~(use_memory /\ db_database # "None")

\* the number of records the collections of the names in S hold in all
RECURSIVE TotalRecords(_)
TotalRecords(S) ==
  IF S = {} THEN 0
  ELSE LET c == CHOOSE x \in S : TRUE
       IN  Len(collections[c]) + TotalRecords(S \ {c})

\* C27: an insert_one that raises leaves the collections, the records and the
\* counter as they were, and the counter is always one more than the number
\* of records the collections hold in all.
C27_FailedInsertChangesNothing ==
  /\ [](next_id = 1 + TotalRecords(DOMAIN collections))
  /\ [][res'.op = "insert_one" /\ res'.raised # "none" =>
          UNCHANGED <<collections, next_id, heap>>]_vars

\* the records collection c holds after the step
HeldNext(c) ==
  IF c \in DOMAIN collections'
  THEN [i \in 1..Len(collections'[c]) |-> heap'[collections'[c][i]]]
  ELSE <<>>

\* C22: an insert_one that succeeds on a store whose counter is c leaves the
\* record with the identifier str(c) at the end of the named collection, one
\* record longer than before, returns str(c), advances the counter by exactly
\* one, and leaves the records of every other collection as they were.
C22_InsertFrame ==
  [][res'.op = "insert_one" /\ res'.raised = "none" =>
       LET c == res'.coll
       IN  /\ next_id' = next_id + 1
           /\ res'.inserted_id = Str(next_id)
           /\ Len(HeldNext(c)) = Len(Held(c)) + 1
           /\ HeldNext(c)[Len(HeldNext(c))]._id = Str(next_id)
           /\ \A d \in (DOMAIN collections) \ {c} : HeldNext(d) = Held(d)]_vars

\* a is a prefix of b
IsPrefix(a, b) == Len(a) <= Len(b) /\ a = SubSeq(b, 1, Len(a))

\* C23: the records a collection holds before a step are a prefix of the
\* records it holds after it: none is removed, reordered or replaced.
C23_AppendOnly ==
  [][\A c \in DOMAIN collections : IsPrefix(Held(c), HeldNext(c))]_vars

\* C28: the counter never decreases, every record a collection holds has the
\* decimal string of an integer in 1..counter-1 as its identifier, and no two
\* entries anywhere in the store carry the same identifier.
C28_IdentifiersStoreWide ==
  /\ [][next_id' >= next_id]_vars
  /\ [](\A c \in DOMAIN collections : \A i \in 1..Len(collections[c]) :
          LET id == heap[collections[c][i]]._id
          IN  /\ id = Str(ParseInt(id))
              /\ ParseInt(id) \in 1..(next_id - 1))
  /\ [](\A c, d \in DOMAIN collections :
          \A i \in 1..Len(collections[c]), j \in 1..Len(collections[d]) :
            (c # d \/ i # j) =>
              heap[collections[c][i]]._id # heap[collections[d][j]]._id)

\* C24: find and count_documents give the same result for any two filter
\* predicates on the same store, count_documents gives the number of records
\* the collection holds, and neither changes the counter, a collection or a
\* record.
C24_FilterIgnoredReadOnly ==
  /\ [](res.op = "find" /\ res.via = "memory_db" =>
          \A q \in Queries :
            /\ find(res.coll, q, res.skip, res.limit).raised = res.raised
            /\ Deref(find(res.coll, q, res.skip, res.limit).docs) = res.docs)
  /\ [](res.op = "count_documents" =>
          /\ res.raised = "none"
          /\ res.n = Len(Held(res.coll))
          /\ \A q \in Queries : count_documents(res.coll, q).n = res.n)
  /\ [][res'.op \in {"find", "count_documents"} =>
          UNCHANGED <<collections, next_id, heap>>]_vars

\* C24 witness: count_documents with the filter {} has returned 2 for a
\* collection of two records.
C24_Witness ==
  /\ res.op = "count_documents"
  /\ res.query = "{}"
  /\ res.n = 2
  /\ Len(Held(res.coll)) = 2

\* C25: with no connection string no client is created and no probe issued,
\* and every resolution selects the in-memory backend; with a connection
\* string, a resolution whose probe succeeds selects the external database
\* and leaves use_memory unset.
C25_SelectionByConfiguration ==
  /\ [](mongo_uri = "None" =>
          /\ clients = 0 /\ probes = 0 /\ db_client = "None"
          /\ (out.op \in {"connect_to_mongo", "get_database", "get_collection"} =>
                use_memory /\ db_database = "None" /\ out.ret # "mongo"))
  /\ [][\A t \in Tasks :
          ProbeReturn(t) /\ out'.err = "none" =>
            /\ db_database' = "mongo"
            /\ ~use_memory'
            /\ (out'.op # "connect_to_mongo" => out'.ret = "mongo")]_vars

\* C29: GET /export of one data type as CSV, answered with a backend
\* available (the external database whose calls did not fail, or the
\* in-memory backend) whose collection of that type holds no record, ends
\* with the status 404.
C29_EmptyCsvExportIs404 ==
  (/\ res.op = "export_data"
   /\ res.format = "csv"
   /\ res.data_type # "all"
   /\ out.ret \in {"mongo", "memory_db"}
   /\ res.raised # "PyMongoError"
   /\ IF out.ret = "mongo" THEN res.n = 0
      ELSE Len(Held(CollectionMap(res.data_type))) = 0) =>
    res.status = 404

====
